---- MODULE Spec2Model ----
(***************************************************************************)
(* Model of the maze generator and the IDA* solver of src/main.rs.         *)
(*                                                                         *)
(* A position is a pair <<row, col>>; the grid is a function from the      *)
(* positions of a size x size square to a Cell.  The program is sequential *)
(* (main: Maze::new, generate, ida_star); pc is the position of its single *)
(* call stack.  Every call to the random source (rand::thread_rng) is a    *)
(* nondeterministic choice over the sampled range.                         *)
(***************************************************************************)
EXTENDS Integers, Sequences, FiniteSets, TLC

(* Largest side length the exhaustive specification explores. *)
MaxSize == 5

(* Largest side length explored for the carving loop alone. *)
MaxCarveSize == 9

(* The side length main uses when no argument is given. *)
DefaultSize == 15

(* usize::MAX.  It is only compared, minimised and produced by wrapping a   *)
(* negative isize; it is never added to.  It stands for 2^64 - 1 and is    *)
(* represented by the largest integer the checker handles.                 *)
UsizeMax == 2147483647

VARIABLES
    pc,         \* position of the program
    size,       \* Maze.size
    grid,       \* Maze.grid
    stack,      \* generate: the carving stack
    visited,    \* generate: the cells the carving has visited
    trial,      \* generate: index of the next loop-injection trial
    bound,      \* ida_star: bound
    path,       \* ida_star: state.path
    marked,     \* ida_star: the cells with state.visited[c] = true
    frames,     \* the active calls of search, outermost first
    ret,        \* the SearchResult a call of search has just returned
    result,     \* the Option ida_star returns
    maze0,      \* history: the grid as generate returned it
    cutoffs     \* history: the f of every call of search cut off (f > bound) in
                \* the current outer iteration

vars == <<pc, size, grid, stack, visited, trial, bound, path, marked, frames, ret, result,
          maze0, cutoffs>>

genVars == <<stack, visited, trial>>
solveVars == <<bound, path, marked, frames, ret, result>>


Cell == {"Wall", "Path", "Solution", "Current", "Visited"}

Cells(n) == (0 .. n - 1) \X (0 .. n - 1)

(* `v as usize` for an isize v: a negative value wraps. *)
AsUsize(v) == IF v < 0 THEN (UsizeMax + v) + 1 ELSE v

Min(a, b) == IF a < b THEN a ELSE b

Abs(v) == IF v < 0 THEN -v ELSE v

Last(s) == s[Len(s)]

Front(s) == SubSeq(s, 1, Len(s) - 1)

Contains(s, e) == \E i \in 1 .. Len(s) : s[i] = e

(***************************************************************************)
(* Maze::new                                                               *)
(***************************************************************************)
start == <<1, 1>>

goal == <<size - 2, size - 2>>

(* size - 2 underflows for size < 2: a debug build panics on the           *)
(* subtraction, a release build wraps and then panics on grid[1][1], which *)
(* is out of range for a grid of fewer than two rows.                      *)
NewPanics(n) == n < 2

(* Maze::new without the goal cell opened. *)
NewGridNoGoal(n) == [p \in Cells(n) |-> IF p = <<1, 1>> THEN "Path" ELSE "Wall"]

NewGrid(n) ==
    [p \in Cells(n) |-> IF p = <<1, 1>> \/ p = <<n - 2, n - 2>> THEN "Path" ELSE "Wall"]

(***************************************************************************)
(* Maze::generate: randomized depth-first carving                          *)
(***************************************************************************)
CarveDirs == << <<0, 2>>, <<2, 0>>, <<0, -2>>, <<-2, 0>> >>

Moved(p, d) == <<AsUsize(p[1] + d[1]), AsUsize(p[2] + d[2])>>

(* The bounds test of the carving off by one. *)
CarveNeighborsNarrow(current, vis) ==
    LET cand == [i \in 1 .. 4 |-> Moved(current, CarveDirs[i])]
        Ok(q) == q[1] < size - 2 /\ q[2] < size - 2 /\ q \notin vis
    IN  SelectSeq(cand, Ok)

(* The carving without the test of visited. *)
CarveNeighborsRevisit(current, vis) ==
    LET cand == [i \in 1 .. 4 |-> Moved(current, CarveDirs[i])]
        Ok(q) == q[1] < size - 1 /\ q[2] < size - 1
    IN  SelectSeq(cand, Ok)

CarveNeighbors(current, vis) ==
    LET cand == [i \in 1 .. 4 |-> Moved(current, CarveDirs[i])]
        Ok(q) == q[1] < size - 1 /\ q[2] < size - 1 /\ q \notin vis
    IN  SelectSeq(cand, Ok)

(* The carving without the midpoint cell. *)
CarvedNoMidpoint(g, current, n) == [g EXCEPT ![n] = "Path"]

Carved(g, current, n) ==
    [g EXCEPT ![n] = "Path",
              ![<<(current[1] + n[1]) \div 2, (current[2] + n[2]) \div 2>>] = "Path"]

(***************************************************************************)
(* Maze::generate: loop injection                                          *)
(***************************************************************************)
InjectDirs == << <<0, 1>>, <<1, 0>>, <<0, -1>>, <<-1, 0>> >>

(* gen_range(1..size-1) panics on an empty range. *)
InjectPanics == size - 1 <= 1

Injected(g, x, y, d) ==
    IF g[<<x, y>>] = "Path"
    THEN LET n == Moved(<<x, y>>, InjectDirs[d])
         IN  IF n[1] < size - 1 /\ n[2] < size - 1 /\ g[n] = "Wall"
             THEN [g EXCEPT ![n] = "Path"]
             ELSE g
    ELSE g

Reasserted(g) == [g EXCEPT ![start] = "Path", ![goal] = "Path"]

(***************************************************************************)
(* Maze::is_solvable: depth-first traversal with an explicit stack         *)
(***************************************************************************)
SolvableDirs == << <<0, 1>>, <<1, 0>>, <<0, -1>>, <<-1, 0>> >>

RECURSIVE PushOpenThroughWalls(_, _, _, _, _)
(* The for loop of is_solvable without the test of the cell's value. *)
PushOpenThroughWalls(g, p, i, stk, vis) ==
    IF i > 4 THEN <<stk, vis>>
    ELSE LET n == Moved(p, SolvableDirs[i])
         IN  IF n[1] < size /\ n[2] < size /\ n \notin vis
             THEN PushOpenThroughWalls(g, p, i + 1, Append(stk, n), vis \cup {n})
             ELSE PushOpenThroughWalls(g, p, i + 1, stk, vis)

RECURSIVE PushOpen(_, _, _, _, _)
(* The for loop of is_solvable over directions i..4 at cell p: the stack   *)
(* and the visited set after it.                                           *)
PushOpen(g, p, i, stk, vis) ==
    IF i > 4 THEN <<stk, vis>>
    ELSE LET n == Moved(p, SolvableDirs[i])
         IN  IF n[1] < size /\ n[2] < size /\ n \notin vis /\ g[n] = "Path"
             THEN PushOpen(g, p, i + 1, Append(stk, n), vis \cup {n})
             ELSE PushOpen(g, p, i + 1, stk, vis)

(* One iteration of the while loop of is_solvable on st = the stack, the   *)
(* visited set and whether the goal has been popped; nothing is left to do *)
(* once the goal is popped or the stack is empty.                          *)
SolvableStep(g, st) ==
    IF st.found \/ st.stk = <<>> THEN st
    ELSE LET p == Last(st.stk)
         IN  IF p = goal THEN [st EXCEPT !.found = TRUE]
             ELSE LET next == PushOpen(g, p, 1, Front(st.stk), st.vis)
                  IN  [stk |-> next[1], vis |-> next[2], found |-> FALSE]

RECURSIVE SolvableLoop(_, _, _)
(* Up to n iterations of the while loop from st (n >= 1), in two halves;   *)
(* the state after the first half is bound once as mid.                    *)
SolvableLoop(g, st, n) ==
    IF n = 1 THEN SolvableStep(g, st)
    ELSE CHOOSE r \in {IF mid.found \/ mid.stk = <<>> THEN mid
                         ELSE SolvableLoop(g, mid, n - (n \div 2)) :
                        mid \in {SolvableLoop(g, st, n \div 2)}} : TRUE

(* Every cell is pushed at most once, so size * size iterations end the    *)
(* loop.                                                                   *)
is_solvable(g) ==
    SolvableLoop(g, [stk |-> <<start>>, vis |-> {start}, found |-> FALSE], size * size).found

(***************************************************************************)
(* Maze::generate: the repair step                                         *)
(***************************************************************************)
RepairOffsets == <<-1, 0, 1>>

RECURSIVE RepairRow(_, _, _)
(* The inner loop over dy = RepairOffsets[j..3] for one dx: the first Path *)
(* neighbour in that row, or <<>> when the row has none (break leaves only *)
(* the inner loop).                                                        *)
RepairRow(g, dx, j) ==
    IF j > 3 THEN <<>>
    ELSE LET dy == RepairOffsets[j]
             n == <<AsUsize(goal[1] + dx), AsUsize(goal[2] + dy)>>
         IN  IF dx = 0 /\ dy = 0 THEN RepairRow(g, dx, j + 1)
             ELSE IF g[n] = "Path" THEN n
             ELSE RepairRow(g, dx, j + 1)

RECURSIVE RepairScan(_, _, _)
RepairScan(g, i, closest) ==
    IF i > 3 THEN closest
    ELSE LET hit == RepairRow(g, RepairOffsets[i], 1)
         IN  RepairScan(g, i + 1, IF hit = <<>> THEN closest ELSE hit)

(* The repair with the cell left of the goal as its default. *)
closest_pathLeft(g) == RepairScan(g, 1, <<goal[1], goal[2] - 1>>)

closest_path(g) == RepairScan(g, 1, <<goal[1] - 1, goal[2]>>)

Repaired(g) ==
    IF ~is_solvable(g) THEN [g EXCEPT ![closest_path(g)] = "Path"] ELSE g

(***************************************************************************)
(* Actions of main, Maze::new and Maze::generate                           *)
(***************************************************************************)
(* The state of main once the size argument is parsed. *)
Start(sizes) ==
    /\ pc = "main"
    /\ size \in sizes
    /\ grid = <<>>
    /\ stack = <<>>
    /\ visited = {}
    /\ trial = 0
    /\ bound = 0
    /\ path = <<>>
    /\ marked = {}
    /\ frames = <<>>
    /\ ret = [tag |-> "None"]
    /\ result = [tag |-> "Pending"]
    /\ maze0 = <<>>
    /\ cutoffs = {}

Init == Start(0 .. MaxSize)

(* Maze::new, then the first lines of generate. *)
MazeNew ==
    /\ pc = "main"
    /\ IF NewPanics(size)
       THEN /\ pc' = "panic"
            /\ UNCHANGED <<grid, stack, visited>>
       ELSE /\ pc' = "carve"
            /\ grid' = NewGrid(size)
            /\ stack' = <<start>>
            /\ visited' = {start}
    /\ UNCHANGED <<size, trial>>
    /\ UNCHANGED <<solveVars, maze0, cutoffs>>

(* One iteration of the carving loop that carves: the random source picks  *)
(* neighbors[i].                                                           *)
CarveStep(i) ==
    /\ pc = "carve"
    /\ stack # <<>>
    /\ LET current == Last(stack)
           neighbors == CarveNeighbors(current, visited)
       IN  /\ i \in 1 .. Len(neighbors)
           /\ grid' = Carved(grid, current, neighbors[i])
           /\ visited' = visited \cup {neighbors[i]}
           /\ stack' = Append(stack, neighbors[i])
    /\ UNCHANGED <<pc, size, trial>>
    /\ UNCHANGED <<solveVars, maze0, cutoffs>>

(* One iteration of the carving loop that backtracks; the loop ends when   *)
(* the stack empties.                                                      *)
PopStep ==
    /\ pc = "carve"
    /\ stack # <<>>
    /\ CarveNeighbors(Last(stack), visited) = <<>>
    /\ stack' = Front(stack)
    /\ pc' = IF stack' = <<>> THEN "inject" ELSE "carve"
    /\ UNCHANGED <<size, grid, visited, trial>>
    /\ UNCHANGED <<solveVars, maze0, cutoffs>>

(* One loop-injection trial sampling cell (x, y) and direction d. *)
InjectTrial(x, y, d) ==
    /\ pc = "inject"
    /\ trial < size
    /\ ~InjectPanics
    /\ x \in 1 .. size - 2
    /\ y \in 1 .. size - 2
    /\ d \in 1 .. 4
    /\ grid' = Injected(grid, x, y, d)
    /\ trial' = trial + 1
    /\ pc' = IF trial' = size THEN "reassert" ELSE "inject"
    /\ UNCHANGED <<size, stack, visited>>
    /\ UNCHANGED <<solveVars, maze0, cutoffs>>

(* The first trial samples from the empty range 1..size-1. *)
InjectPanic ==
    /\ pc = "inject"
    /\ trial < size
    /\ InjectPanics
    /\ pc' = "panic"
    /\ UNCHANGED <<size, grid, stack, visited, trial>>
    /\ UNCHANGED <<solveVars, maze0, cutoffs>>

Reassert ==
    /\ pc = "reassert"
    /\ grid' = Reasserted(grid)
    /\ pc' = "verify"
    /\ UNCHANGED <<size, stack, visited, trial>>
    /\ UNCHANGED <<solveVars, maze0, cutoffs>>

(* The solvability check and the repair; generate returns. *)
Repair ==
    /\ pc = "verify"
    /\ grid' = Repaired(grid)
    /\ pc' = "generated"
    /\ maze0' = grid'
    /\ visited' = {}
    /\ trial' = 0
    /\ UNCHANGED <<size, stack, cutoffs>>
    /\ UNCHANGED solveVars

(***************************************************************************)
(* Maze::manhattan_distance and the pure parts of ida_star and search      *)
(***************************************************************************)
manhattan_distance(pos) == Abs(pos[1] - goal[1]) + Abs(pos[2] - goal[2])

InitialBound == manhattan_distance(start) * 3

SearchDirs == << <<0, 1>>, <<1, 0>>, <<0, -1>>, <<-1, 0>> >>

(* sort_by_key: the stable sort of s by cost.  Element i comes after the   *)
(* elements of smaller cost and after the earlier elements of equal cost.  *)
Rank(s, i) ==
    Cardinality({j \in 1 .. Len(s) : s[j][1] < s[i][1] \/ (s[j][1] = s[i][1] /\ j < i)})

(* The sequence is bound once as v, so that it is evaluated a single time.  *)
SortByCost(s) ==
    CHOOSE r \in {[k \in 1 .. Len(v) |-> v[CHOOSE i \in 1 .. Len(v) : Rank(v, i) = k - 1]] :
                    v \in {s}} : TRUE

(* The moves of search without the Wall test. *)
MovesThroughWalls(gr, current, g, vis) ==
    LET cand == [i \in 1 .. 4 |-> Moved(current, SearchDirs[i])]
        Ok(q) == q[1] < size /\ q[2] < size /\ q \notin vis
        Cost(q) == <<(g + 1) + manhattan_distance(q), q>>
        open == SelectSeq(cand, Ok)
    IN  SortByCost([i \in 1 .. Len(open) |-> Cost(open[i])])

(* The moves of search at `current` with cost g: <<move_f, position>>,     *)
(* sorted by move_f.                                                       *)
Moves(gr, current, g, vis) ==
    LET cand == [i \in 1 .. 4 |-> Moved(current, SearchDirs[i])]
        Ok(q) == q[1] < size /\ q[2] < size /\ gr[q] # "Wall" /\ q \notin vis
        Cost(q) == <<(g + 1) + manhattan_distance(q), q>>
        open == SelectSeq(cand, Ok)
    IN  SortByCost([i \in 1 .. Len(open) |-> Cost(open[i])])

(* The Visited mark without the is_start test. *)
MarkVisitedAlways(gr, current) == [gr EXCEPT ![current] = "Visited"]

(* A dead end closed off as a Wall instead of marked Visited. *)
MarkVisitedAsWall(gr, current) ==
    IF current # start THEN [gr EXCEPT ![current] = "Wall"] ELSE gr

(* The overlay mark search leaves on `current` when it returns NewBound. *)
MarkVisited(gr, current) ==
    IF current # start THEN [gr EXCEPT ![current] = "Visited"] ELSE gr

MarkSolution(gr, p) ==
    [c \in DOMAIN gr |-> IF Contains(p, c) THEN "Solution" ELSE gr[c]]

(* The next bound without the size/2 added (the textbook IDA* step). *)
NextBoundExact(b, new_bound) ==
    IF new_bound = UsizeMax THEN b + size ELSE new_bound

(* The bound left as it is when nothing was cut off. *)
NextBoundStuck(b, new_bound) ==
    IF new_bound = UsizeMax THEN b ELSE new_bound + (size \div 2)

(* The bound of the next outer iteration after NewBound(new_bound). *)
NextBound(b, new_bound) ==
    IF new_bound = UsizeMax THEN b + size ELSE new_bound + (size \div 2)

(***************************************************************************)
(* Actions of ida_star and search.  A frame is one active call of search   *)
(* that has reached its for loop: its current cell, its g, the moves it    *)
(* has still to try and its min_bound.                                     *)
(***************************************************************************)
NoRet == [tag |-> "None"]

(* The g of the call of search about to run. *)
CallG == IF frames = <<>> THEN 0 ELSE Last(frames).g + 1

IdaStart ==
    /\ pc = "generated"
    /\ bound' = InitialBound
    /\ path' = <<start>>
    /\ marked' = {}
    /\ pc' = "outer"
    /\ UNCHANGED <<size, grid, frames, ret, result>>
    /\ UNCHANGED <<genVars, maze0, cutoffs>>

(* The test of the while loop of ida_star. *)
OuterLoop ==
    /\ pc = "outer"
    /\ IF bound < size * size
       THEN pc' = "call" /\ UNCHANGED result
       ELSE pc' = "done" /\ result' = [tag |-> "None"]
    /\ UNCHANGED <<size, grid, bound, path, marked, frames, ret>>
    /\ UNCHANGED <<genVars, maze0, cutoffs>>

(* search up to the frame it displays: the current cell is marked Current. *)
SearchShow ==
    /\ pc = "call"
    /\ grid' = [grid EXCEPT ![Last(path)] = "Current"]
    /\ pc' = "shown"
    /\ UNCHANGED <<size, bound, path, marked, frames, ret, result>>
    /\ UNCHANGED <<genVars, maze0, cutoffs>>

(* search from the bound test to the start of its for loop. *)
SearchBody ==
    /\ pc = "shown"
    /\ LET current == Last(path)
           g == CallG
           f == g + manhattan_distance(current)
       IN  IF f > bound
           THEN /\ grid' = MarkVisited(grid, current)
                /\ ret' = [tag |-> "NewBound", val |-> f]
                /\ pc' = "ret"
                /\ cutoffs' = cutoffs \cup {f}
                /\ UNCHANGED <<marked, frames>>
           ELSE IF current = goal
           THEN /\ grid' = MarkSolution(grid, path)
                /\ ret' = [tag |-> "Found", solution |-> path]
                /\ pc' = "ret"
                /\ UNCHANGED <<marked, frames, cutoffs>>
           ELSE /\ marked' = marked \cup {current}
                /\ frames' = Append(frames,
                                    [current |-> current, g |-> g,
                                     moves |-> Moves(grid, current, g, marked'),
                                     min_bound |-> UsizeMax])
                /\ pc' = "loop"
                /\ UNCHANGED <<grid, ret, cutoffs>>
    /\ UNCHANGED <<size, bound, path, result>>
    /\ UNCHANGED <<genVars, maze0>>

(* One iteration of the for loop over moves: the move is pushed and search *)
(* is called, unless the path already contains it.                         *)
SearchTry ==
    /\ pc = "loop"
    /\ Last(frames).moves # <<>>
    /\ LET top == Last(frames)
           m == Head(top.moves)[2]
       IN  /\ frames' = [frames EXCEPT ![Len(frames)].moves = Tail(top.moves)]
           /\ IF ~Contains(path, m)
              THEN path' = Append(path, m) /\ pc' = "call"
              ELSE UNCHANGED <<path, pc>>
    /\ UNCHANGED <<size, grid, bound, marked, ret, result>>
    /\ UNCHANGED <<genVars, maze0, cutoffs>>

(* The for loop is over: search marks the cell and returns NewBound. *)
SearchExhausted ==
    /\ pc = "loop"
    /\ Last(frames).moves = <<>>
    /\ grid' = MarkVisited(grid, Last(frames).current)
    /\ ret' = [tag |-> "NewBound", val |-> Last(frames).min_bound]
    /\ frames' = Front(frames)
    /\ pc' = "ret"
    /\ UNCHANGED <<size, bound, path, marked, result>>
    /\ UNCHANGED <<genVars, maze0, cutoffs>>

(* A call of search made by search returns to its caller. *)
SearchReturn ==
    /\ pc = "ret"
    /\ frames # <<>>
    /\ IF ret.tag = "Found"
       THEN /\ frames' = Front(frames)
            /\ UNCHANGED <<path, ret, pc>>
       ELSE /\ frames' = [frames EXCEPT ![Len(frames)].min_bound =
                                            Min(Last(frames).min_bound, ret.val)]
            /\ path' = Front(path)
            /\ ret' = NoRet
            /\ pc' = "loop"
    /\ UNCHANGED <<size, grid, bound, marked, result>>
    /\ UNCHANGED <<genVars, maze0, cutoffs>>

(* The return of the depth-0 call with a fresh SearchState for the next    *)
(* outer iteration.                                                        *)
OuterReturnFreshState ==
    /\ pc = "ret"
    /\ frames = <<>>
    /\ IF ret.tag = "Found"
       THEN /\ result' = [tag |-> "Some", solution |-> ret.solution]
            /\ pc' = "done"
            /\ UNCHANGED <<bound, path, marked>>
       ELSE /\ bound' = NextBound(bound, ret.val)
            /\ path' = <<start>>
            /\ marked' = {}
            /\ pc' = "outer"
            /\ UNCHANGED result
    /\ ret' = NoRet
    /\ cutoffs' = {}
    /\ UNCHANGED <<size, grid, frames>>
    /\ UNCHANGED <<genVars, maze0>>

(* The call of search made by ida_star returns. *)
OuterReturn ==
    /\ pc = "ret"
    /\ frames = <<>>
    /\ IF ret.tag = "Found"
       THEN /\ result' = [tag |-> "Some", solution |-> ret.solution]
            /\ pc' = "done"
            /\ UNCHANGED <<bound, path>>
       ELSE /\ bound' = NextBound(bound, ret.val)
            /\ path' = <<start>>
            /\ pc' = "outer"
            /\ UNCHANGED result
    /\ ret' = NoRet
    /\ cutoffs' = {}
    /\ UNCHANGED <<size, grid, marked, frames>>
    /\ UNCHANGED <<genVars, maze0>>

Solve ==
    \/ IdaStart
    \/ OuterLoop
    \/ SearchShow
    \/ SearchBody
    \/ SearchTry
    \/ SearchExhausted
    \/ SearchReturn
    \/ OuterReturn

Next ==
    \/ MazeNew
    \/ \E i \in 1 .. 4 : CarveStep(i)
    \/ PopStep
    \/ \E x \in 1 .. size - 2, y \in 1 .. size - 2, d \in 1 .. 4 : InjectTrial(x, y, d)
    \/ InjectPanic
    \/ Reassert
    \/ Repair
    \/ Solve

Spec == Init /\ [][Next]_vars

(* ida_star runs on once generate has returned: a step of the solver is    *)
(* taken whenever one is possible.                                         *)
LiveSpec == Spec /\ WF_vars(Solve)

(* The steps of Maze::new and generate. *)
Generate ==
    \/ MazeNew
    \/ \E i \in 1 .. 4 : CarveStep(i)
    \/ PopStep
    \/ \E x \in 1 .. size - 2, y \in 1 .. size - 2, d \in 1 .. 4 : InjectTrial(x, y, d)
    \/ InjectPanic
    \/ Reassert
    \/ Repair

(* main runs generate to its end: a step of generate is taken whenever one *)
(* is possible.                                                            *)
GenLiveSpec == Spec /\ WF_vars(Generate)

(***************************************************************************)
(* Runs of larger mazes under a restricted random source: the carving      *)
(* draws a neighbour in the row of the current cell whenever there is one, *)
(* and every loop-injection trial samples the start cell.  Each such run   *)
(* is a run of the program; the restriction keeps the state space small.   *)
(***************************************************************************)
RowDraws(current, neighbors) ==
    LET same == {i \in 1 .. Len(neighbors) : neighbors[i][1] = current[1]}
    IN  IF same # {} THEN same ELSE 1 .. Len(neighbors)

SnakeCarve ==
    /\ pc = "carve"
    /\ stack # <<>>
    /\ \E i \in RowDraws(Last(stack), CarveNeighbors(Last(stack), visited)) : CarveStep(i)

SnakeInject == \E d \in 1 .. 4 : InjectTrial(start[1], start[2], d)

InitSnake == Start({7, DefaultSize})

NextSnake ==
    \/ MazeNew
    \/ SnakeCarve
    \/ PopStep
    \/ SnakeInject
    \/ Reassert
    \/ Repair
    \/ Solve

SnakeSpec == InitSnake /\ [][NextSnake]_vars

(* The same runs, and those of side 4, with ida_star running on once       *)
(* generate has returned.                                                  *)
InitSnakeLive == Start({4, 7, DefaultSize})

SnakeLiveSpec == InitSnakeLive /\ [][NextSnake]_vars /\ WF_vars(Solve)

(***************************************************************************)
(* The carving loop of generate on its own, with every draw, up to a       *)
(* larger side length: the run stops where loop injection would start.     *)
(***************************************************************************)
InitCarve == Start(3 .. MaxCarveSize)

NextCarve ==
    \/ MazeNew
    \/ \E i \in 1 .. 4 : CarveStep(i)
    \/ PopStep

CarveSpec == InitCarve /\ [][NextCarve]_vars

(***************************************************************************)
(* is_solvable called on its own: on every grid of Wall and Path cells     *)
(* with start and goal open (Maze::new opens them, generate opens them     *)
(* again before it calls is_solvable), any set of interior cells open and  *)
(* at most one cell of the outer border open.                              *)
(***************************************************************************)
Interior(n) == (1 .. n - 2) \X (1 .. n - 2)

UnitGrids(n) ==
    {[c \in Cells(n) |->
         IF c \in open \cup b \cup {<<1, 1>>, <<n - 2, n - 2>>} THEN "Path" ELSE "Wall"] :
        open \in SUBSET (Interior(n) \ {<<1, 1>>, <<n - 2, n - 2>>}),
        b \in {{}} \cup {{c} : c \in Cells(n) \ Interior(n)}}

InitSolvable ==
    /\ pc = "unit"
    /\ size \in 3 .. MaxSize
    /\ grid \in UnitGrids(size)
    /\ maze0 = grid
    /\ cutoffs = {}
    /\ stack = <<>>
    /\ visited = {}
    /\ trial = 0
    /\ bound = 0
    /\ path = <<>>
    /\ marked = {}
    /\ frames = <<>>
    /\ ret = NoRet
    /\ result = [tag |-> "Pending"]

(* The call of is_solvable and its return value. *)
CallIsSolvable ==
    /\ pc = "unit"
    /\ ret' = [tag |-> "Bool", val |-> is_solvable(grid)]
    /\ pc' = "unit_done"
    /\ UNCHANGED <<size, grid, bound, path, marked, frames, result>>
    /\ UNCHANGED <<genVars, maze0, cutoffs>>

SolvableSpec == InitSolvable /\ [][CallIsSolvable]_vars

(* The solvability check and the repair step of generate on the same       *)
(* grids; maze0 keeps the grid as it was before.                           *)
CallRepair ==
    /\ pc = "unit"
    /\ grid' = Repaired(grid)
    /\ pc' = "unit_repaired"
    /\ UNCHANGED <<size, bound, path, marked, frames, ret, result>>
    /\ UNCHANGED <<genVars, maze0, cutoffs>>

RepairSpec == InitSolvable /\ [][CallRepair]_vars

(***************************************************************************)
(* Reference definitions for the properties: reachability and shortest     *)
(* route length by breadth-first search, independent of the program's own  *)
(* traversals.                                                             *)
(***************************************************************************)
PathCells(g) == {c \in DOMAIN g : g[c] = "Path"}

Passable(g) == {c \in DOMAIN g : g[c] # "Wall"}

Adjacent(p, q) == Abs(p[1] - q[1]) + Abs(p[2] - q[2]) = 1

(* One level of the breadth-first search over the cells of `open`. *)
BfsStep(open, st) ==
    IF st.done THEN st
    ELSE IF goal \in st.front THEN [st EXCEPT !.done = TRUE, !.len = st.dist]
    ELSE LET nxt == {q \in open \ st.seen : \E p \in st.front : Adjacent(p, q)}
         IN  IF nxt = {} THEN [st EXCEPT !.done = TRUE]
             ELSE [front |-> nxt, seen |-> st.seen \cup nxt, dist |-> st.dist + 1,
                   done |-> FALSE, len |-> -1]

RECURSIVE BfsRun(_, _, _)
BfsRun(open, st, n) ==
    IF n = 1 THEN BfsStep(open, st)
    ELSE LET h == n \div 2
             mid == BfsRun(open, st, h)
         IN  IF mid.done THEN mid ELSE BfsRun(open, mid, n - h)

(* The number of steps of a shortest 4-directional route from start to     *)
(* goal over the cells of `open`, or -1 when there is none.                *)
ShortestLength(open) ==
    IF start \notin open THEN -1
    ELSE BfsRun(open, [front |-> {start}, seen |-> {start}, dist |-> 0,
                       done |-> FALSE, len |-> -1], Cardinality(open) + 1).len

(* The cells of `open` joined to `seen` by one more step. *)
FloodStep(open, seen) == seen \cup {q \in open : \E p \in seen : Adjacent(p, q)}

RECURSIVE FloodRun(_, _, _)
(* n steps of the flood from `seen` (n >= 1), in two halves. *)
FloodRun(open, seen, n) ==
    IF n = 1 THEN FloodStep(open, seen)
    ELSE CHOOSE r \in {FloodRun(open, mid, n - (n \div 2)) :
                        mid \in {FloodRun(open, seen, n \div 2)}} : TRUE

(* The cells of `open` are 4-connected. *)
Connected(open) ==
    open = {} \/ FloodRun(open, {CHOOSE c \in open : TRUE}, Cardinality(open)) = open

(* The pairs of adjacent cells of `open`. *)
Edges(open) ==
    {e \in open \X open : e[2] = <<e[1][1], e[1][2] + 1>> \/ e[2] = <<e[1][1] + 1, e[1][2]>>}

GenPcs == {"carve", "inject", "reassert", "verify", "generated"}

SolvePcs == {"outer", "call", "shown", "loop", "ret", "done"}

Overlay == {"Current", "Visited", "Solution"}

(***************************************************************************)
(* C1: for every odd size >= 5 and every sequence of random choices,       *)
(* is_solvable() is true once generate() has returned: the goal is         *)
(* reachable from the start by 4-directional moves over Path cells.        *)
(***************************************************************************)
C1_OddMazeSolvable ==
    (pc = "generated" /\ size >= 5 /\ size % 2 = 1)
        => (is_solvable(grid) /\ ShortestLength(PathCells(grid)) >= 0)

(* generate has returned an odd maze in which loop injection opened cells. *)
C1_Witness ==
    /\ pc = "generated"
    /\ size = 5
    /\ is_solvable(grid)
    /\ Cardinality(PathCells(grid)) > 7

(***************************************************************************)
(* C2: for every size >= 4, odd or even, the grid generate() returns       *)
(* contains a 4-connected route of Path cells from start to goal.          *)
(***************************************************************************)
C2_EveryMazeSolvable ==
    (pc = "generated" /\ size >= 4) => ShortestLength(PathCells(grid)) >= 0

(***************************************************************************)
(* C3: whenever ida_star returns Some(path), the number of steps of path   *)
(* equals the shortest-path length found by breadth-first search over the  *)
(* non-Wall cells of the same topology.                                    *)
(***************************************************************************)
C3_PathIsShortest ==
    (pc = "done" /\ result.tag = "Some")
        => Len(result.solution) - 1 = ShortestLength(Passable(maze0))

(***************************************************************************)
(* C4: whenever the goal is reachable from the start over non-Wall cells,  *)
(* ida_star returns Some(path), not None.                                  *)
(***************************************************************************)
C4_FindsExistingPath ==
    (pc = "done" /\ ShortestLength(Passable(maze0)) >= 0) => result.tag = "Some"

(***************************************************************************)
(* C5: whenever ida_star returns Some(path), path starts at start, ends at *)
(* goal, moves one unit in one coordinate at every step, repeats no        *)
(* position and visits only non-Wall cells of the grid.                    *)
(***************************************************************************)
ValidPath(p) ==
    /\ Len(p) >= 1
    /\ p[1] = start
    /\ p[Len(p)] = goal
    /\ \A i \in 1 .. Len(p) - 1 : Adjacent(p[i], p[i + 1])
    /\ \A i, j \in 1 .. Len(p) : i # j => p[i] # p[j]
    /\ \A i \in 1 .. Len(p) : p[i] \in DOMAIN maze0 /\ maze0[p[i]] # "Wall"

C5_ReturnedPathValid == result.tag = "Some" => ValidPath(result.solution)

(* A path of several steps was returned on a maze with an opened border cell. *)
C5_Witness ==
    /\ result.tag = "Some"
    /\ Len(result.solution) >= 5
    /\ \E c \in Passable(maze0) : c[1] = 0 \/ c[2] = 0

(***************************************************************************)
(* C6: for size = 5 and every sequence of random choices in generate(),    *)
(* ida_star on the generated maze terminates and returns Some(path),       *)
(* never None.                                                             *)
(***************************************************************************)
C6_SizeFiveFindsPath ==
    /\ (size = 5 /\ pc = "generated") ~> (pc = "done" /\ result.tag = "Some")
    /\ [](size = 5 => result.tag # "None")

(* ida_star has returned a path on a maze of side 5 within the first bound. *)
C6_Witness ==
    /\ size = 5
    /\ pc = "done"
    /\ result.tag = "Some"
    /\ bound = 12

(***************************************************************************)
(* C7: for every positive size, Maze::new(size) followed by generate()     *)
(* completes without a fault (no underflow in size - 2, no sampling from   *)
(* an empty range, no index outside the grid).                             *)
(***************************************************************************)
C7_GenerationNeverFaults == size >= 1 => pc # "panic"

(***************************************************************************)
(* C8: from Maze::new to the return of generate(), in every intermediate   *)
(* state, grid[start] and grid[goal] are Path.                             *)
(***************************************************************************)
C8_StartGoalOpen == pc \in GenPcs => (grid[start] = "Path" /\ grid[goal] = "Path")

(* Loop injection is under way on a maze whose goal the carving does not reach. *)
C8_Witness ==
    /\ pc = "inject"
    /\ size = 4
    /\ trial >= 2
    /\ Cardinality(PathCells(grid)) >= 3

(***************************************************************************)
(* C9: during ida_star the Wall/Path topology is never altered: a cell     *)
(* that is Wall when ida_star starts stays Wall, a cell that is not Wall   *)
(* never becomes Wall, and only overlay values are written, only to        *)
(* non-Wall cells.                                                         *)
(***************************************************************************)
C9_TopologyKept ==
    pc \in SolvePcs =>
        \A c \in DOMAIN grid :
            /\ maze0[c] = "Wall" => grid[c] = "Wall"
            /\ maze0[c] # "Wall" => grid[c] # "Wall"
            /\ grid[c] # maze0[c] => grid[c] \in Overlay

(* The search has backtracked out of a dead end and marked it. *)
C9_Witness ==
    /\ pc \in SolvePcs
    /\ \E c \in DOMAIN grid : grid[c] = "Visited"
    /\ \E c \in DOMAIN grid : grid[c] = "Current"

(***************************************************************************)
(* C10: ida_star always terminates: every outer iteration that does not    *)
(* find the goal strictly increases bound, search runs only while          *)
(* bound < size * size, and once bound reaches size * size ida_star        *)
(* returns None.                                                           *)
(***************************************************************************)
C10_IdaStarTerminates ==
    /\ (pc = "generated") ~> (pc = "done")
    /\ [][(pc = "ret" /\ frames = <<>> /\ ret.tag = "NewBound") => bound' > bound]_vars
    /\ [](pc \in {"call", "shown", "loop", "ret"} => bound < size * size)
    /\ [][(pc = "outer" /\ bound >= size * size)
            => (pc' = "done" /\ result'.tag = "None")]_vars

(* ida_star gave up at the ceiling after raising the bound. *)
C10_Witness ==
    /\ pc = "done"
    /\ result.tag = "None"
    /\ bound >= size * size
    /\ bound > InitialBound

(***************************************************************************)
(* C11: for every size >= 3, generate() terminates for every sequence of   *)
(* random choices: the carving loop pushes each lattice cell at most once  *)
(* and pops it at most once, so the stack eventually empties, and the      *)
(* loop-injection pass performs exactly size trials.                       *)
(***************************************************************************)
LatticeCells ==
    {c \in Cells(size) : c[1] % 2 = 1 /\ c[2] % 2 = 1 /\ c[1] < size - 1 /\ c[2] < size - 1}

(* Twice the lattice cells still to push plus the cells still to pop. *)
CarveMeasure == 2 * Cardinality(LatticeCells \ visited) + Len(stack)

C11_GenerateTerminates ==
    /\ (pc = "carve" /\ size >= 3) ~> (pc = "generated")
    /\ []((pc = "carve" /\ size >= 3) =>
            /\ visited \subseteq LatticeCells
            /\ \A i \in 1 .. Len(stack) : stack[i] \in visited
            /\ \A i, j \in 1 .. Len(stack) : i # j => stack[i] # stack[j])
    /\ [][(pc = "carve" /\ size >= 3) =>
            /\ CarveMeasure' < CarveMeasure
            /\ visited \subseteq visited'
            /\ Len(stack') > Len(stack) =>
                    (Front(stack') = stack /\ Last(stack') \in LatticeCells \ visited)
            /\ Len(stack') < Len(stack) =>
                    (stack' = Front(stack) /\ Last(stack) \in visited')]_vars
    /\ [][(pc = "inject" /\ size >= 3) => trial' = trial + 1]_vars
    /\ []((pc \in {"carve", "inject"} /\ size >= 3) => trial < size)
    /\ []((pc \in {"reassert", "verify"} /\ size >= 3) => trial = size)

(* The carving has pushed every lattice cell and all the trials are done. *)
C11_Witness ==
    /\ pc = "reassert"
    /\ size = 5
    /\ trial = size
    /\ stack = <<>>
    /\ visited = LatticeCells
    /\ Cardinality(visited) = 4

(***************************************************************************)
(* C12: for every grid whose cells are Wall or Path, is_solvable() returns *)
(* true if and only if goal is reachable from start by 4-directional       *)
(* in-bounds moves over Path cells only (so it returns false when goal is  *)
(* fully walled off), and the call leaves the grid unchanged.              *)
(***************************************************************************)
C12_SolvableIffReachable ==
    pc = "unit_done" =>
        /\ ret.val = (ShortestLength(PathCells(maze0)) >= 0)
        /\ grid = maze0

(* is_solvable returned false on a grid whose goal is fully walled off     *)
(* while other cells are open.                                             *)
C12_Witness ==
    /\ pc = "unit_done"
    /\ size = 5
    /\ ret.val = FALSE
    /\ \A c \in Cells(size) : Adjacent(c, goal) => grid[c] = "Wall"
    /\ Cardinality(PathCells(grid)) >= 5

(***************************************************************************)
(* C13: the start cell is never overlay-marked by the solver: in no state  *)
(* reached during ida_star does grid[start] hold Current, Visited or       *)
(* Solution.                                                               *)
(***************************************************************************)
C13_StartNeverMarked == pc \in SolvePcs => grid[start] \notin Overlay

(* C13 as amended: the start cell is never marked Visited by the solver:   *)
(* in every state reached during ida_star grid[start] holds Path, Current  *)
(* or Solution, and it holds Solution exactly when a path has been found.  *)
C13_StartNeverVisited ==
    pc \in SolvePcs =>
        /\ grid[start] \in {"Path", "Current", "Solution"}
        /\ grid[start] = "Solution" <=> (ret.tag = "Found" \/ result.tag = "Some")

(* The depth-0 call of search has returned NewBound: the start cell was    *)
(* passed to the Visited mark and still holds Current.                     *)
C13_Witness ==
    /\ pc = "outer"
    /\ bound > InitialBound
    /\ grid[start] = "Current"
    /\ \E c \in DOMAIN grid : grid[c] = "Visited"

(***************************************************************************)
(* C14: at every point during search, state.visited marks only cells on    *)
(* the current recursive path: if state.visited[c] is true then c is an    *)
(* element of state.path.                                                  *)
(***************************************************************************)
C14_VisitedOnPath ==
    pc \in {"call", "shown", "loop", "ret"} => \A c \in marked : Contains(path, c)

(***************************************************************************)
(* C15: every outer iteration of ida_star starts from a freshly created    *)
(* SearchState: when search is invoked at depth 0 for the second or any    *)
(* later outer iteration, state.path is [start] and state.visited is false *)
(* for every cell.                                                         *)
(***************************************************************************)
C15_FreshStatePerIteration ==
    (pc = "call" /\ frames = <<>> /\ bound > InitialBound)
        => (path = <<start>> /\ marked = {})

(***************************************************************************)
(* C16: for odd size >= 3, at the moment the carving loop of generate()    *)
(* ends (stack empty, before loop injection), the Path cells form a        *)
(* perfect spanning maze: every cell with both coordinates odd in          *)
(* [1,size-2] is Path, the Path cells are 4-connected, and there are       *)
(* exactly 2k^2-1 Path cells with k=(size-1)/2, so there is exactly one    *)
(* simple Path route between any two lattice cells (the Path cells form a  *)
(* tree: one adjacency fewer than cells).                                  *)
(***************************************************************************)
C16_PerfectMaze ==
    (pc = "inject" /\ trial = 0 /\ size >= 3 /\ size % 2 = 1) =>
        LET k == (size - 1) \div 2
            open == PathCells(grid)
        IN  /\ stack = <<>>
            /\ \A x, y \in 1 .. size - 2 : (x % 2 = 1 /\ y % 2 = 1) => grid[<<x, y>>] = "Path"
            /\ Connected(open)
            /\ Cardinality(open) = 2 * k * k - 1
            /\ Cardinality(Edges(open)) = Cardinality(open) - 1

(* The carving loop has just ended on a maze of side 7 that was carved     *)
(* rightwards first and in which the centre cell is a dead end.            *)
C16_Witness ==
    /\ pc = "inject"
    /\ trial = 0
    /\ size = 7
    /\ grid[<<1, 2>>] = "Path"
    /\ grid[<<2, 1>>] = "Wall"
    /\ grid[<<3, 4>>] = "Wall"
    /\ grid[<<4, 3>>] = "Wall"

(***************************************************************************)
(* C17: bound escalation: the first outer iteration uses bound =           *)
(* 3*h(start); whenever an outer iteration's search returns NewBound(v)    *)
(* with v finite, v is strictly greater than that iteration's bound and    *)
(* equals the minimum f = g + h over all nodes cut off (f > bound) in that *)
(* iteration, and the next bound is v + floor(size/2); when v is infinite  *)
(* (usize::MAX), nothing was cut off and the next bound is bound + size.   *)
(***************************************************************************)
C17_BoundEscalation ==
    /\ [][pc = "generated" => bound' = 3 * (2 * Abs(size - 3))]_vars
    /\ [][(pc = "ret" /\ frames = <<>> /\ ret.tag = "NewBound") =>
            IF ret.val = UsizeMax
            THEN cutoffs = {} /\ bound' = bound + size
            ELSE /\ ret.val > bound
                 /\ ret.val \in cutoffs
                 /\ \A f \in cutoffs : f > bound /\ ret.val <= f
                 /\ bound' = ret.val + (size \div 2)]_vars

(* The second outer iteration has started from a finite NewBound and a     *)
(* later one from an infinite NewBound.                                    *)
C17_Witness ==
    /\ size = DefaultSize
    /\ pc = "outer"
    /\ bound = (InitialBound + 2 + (size \div 2)) + size

(***************************************************************************)
(* C18: for any topology with start different from goal, the goal can only *)
(* be found in the first outer iteration of ida_star: if the first         *)
(* iteration returns NewBound, then in every later iteration every         *)
(* non-Wall neighbour of start is already marked in state.visited, the     *)
(* depth-0 search expands no neighbour and returns NewBound(usize::MAX),   *)
(* and ida_star ends by returning None.                                    *)
(***************************************************************************)
LaterIteration == pc \in SolvePcs /\ start # goal /\ bound > InitialBound

C18_OnlyFirstIterationFinds ==
    /\ [](LaterIteration =>
            /\ \A n \in DOMAIN grid : (Adjacent(start, n) /\ grid[n] # "Wall") => n \in marked
            /\ path = <<start>>
            /\ frames # <<>> => (Len(frames) = 1 /\ frames[1].moves = <<>>)
            /\ pc = "ret" => ret = [tag |-> "NewBound", val |-> UsizeMax]
            /\ result.tag # "Some")
    /\ LaterIteration ~> (pc = "done" /\ result.tag = "None")

(* ida_star has returned None after several outer iterations on a maze     *)
(* whose goal is reachable.                                                *)
C18_Witness ==
    /\ pc = "done"
    /\ result.tag = "None"
    /\ bound > InitialBound + size
    /\ ShortestLength(Passable(maze0)) >= 0

(***************************************************************************)
(* C19: the repair step of generate() changes the grid only when none of   *)
(* the goal's 8 neighbours is Path, in which case it sets exactly the cell *)
(* directly above the goal (goal.row-1, goal.col) to Path; whenever at     *)
(* least one of the 8 neighbours is already Path, the repair step leaves   *)
(* every grid cell unchanged even though is_solvable() returned false.     *)
(***************************************************************************)
Neighbours8(c) ==
    {n \in Cells(size) : n # c /\ Abs(n[1] - c[1]) <= 1 /\ Abs(n[2] - c[2]) <= 1}

C20_BorderIsWall ==
    (pc = "generated" /\ size >= 3) =>
        \A c \in Cells(size) \ Interior(size) : grid[c] = "Wall"
====
